---- MODULE Spec2Model ----
(***************************************************************************)
(* Model of deploy/deploy_vm.py: the WindowsVMDeployer command-line tool.  *)
(* One process (main -> WindowsVMDeployer(config) -> deploy) runs against  *)
(* a persistent filesystem; the operator may run the tool again against    *)
(* the same work directory.  External tools (qemu-img, dd, mkfs.vfat,      *)
(* sudo mount/cp/umount, mkisofs) return an exit code chosen by the        *)
(* environment; subprocess.run(check=True) raises on a non-zero code.      *)
(***************************************************************************)
EXTENDS Naturals, Integers, Sequences, FiniteSets, TLC

VARIABLES
    pc,            \* position of the process in main/deploy and its callees
    run,           \* number of the current execution of the program
    exitStatus,    \* {} while running, else {s} for the process exit status s
    exc,           \* exception in flight ("none" when there is none)
    failure,       \* why the run ended ("none" while it has not failed)
    keyError,      \* the configuration key whose lookup raised KeyError
    configFile,    \* the configuration document on disk: missing, malformed, ok
    document,      \* keys present in the document (when it parses)
    config,        \* self.config: keys present in the loaded tree
    path,          \* tools that shutil.which resolves
    files,         \* paths that exist (work directory, artifacts, user media)
    disk,          \* the file at disk_path: absent, good, or partial
    execs,         \* scripts marked executable (chmod 0o755)
    tempdirs,      \* temporary directories of this run that exist
    mounted,       \* the floppy image is loop-mounted on mount_point
    written,       \* artifacts this run created or rewrote
    steps,         \* calls and returns of the deploy steps of this run, in order
    reports,       \* dependency failure reports printed by this run
    calls,         \* external tool invocations of this run: [tool, rc], in order
    warned,        \* the virtio-win warning was printed
    response,      \* the operator's answer to the launch prompt
    phase,         \* index into start_vm_order of the next phase of start_vm
    promptSeen,    \* what had been written when the prompt was shown
    bgProc,        \* the detached QEMU process: none, running, exit0, exit1
    diskCalls,     \* the create_disk_image calls of all runs that reached the
                   \* existence test: [existed, invoked, rc, returned]
    dangling,      \* loop mounts left behind by earlier runs
    earlier,       \* the runs that have ended: [status, written], in order
    configValues,  \* self.config: the values the renderers and start_vm read
    loadedValues,  \* the values as yaml.safe_load returned them
    xmls,          \* what the calls of generate_autounattend_xml returned
    scripts,       \* what the calls of generate_setup_script returned
    launches       \* the launch scripts start_vm composed: [run, boot]

\* the values of the configuration and what has been rendered from them
renderVars == <<configValues, loadedValues, xmls, scripts, launches>>

vars == <<pc, run, exitStatus, exc, failure, keyError, configFile, document,
          config, path, files, disk, execs, tempdirs, mounted, written, steps,
          reports, calls, warned, response, phase, promptSeen,
          bgProc, diskCalls, dangling, earlier, renderVars>>

----------------------------------------------------------------------------
(* Bounds of the model *)

\* the operator runs the program at most MaxRuns times on the same work dir
MaxRuns == 2

\* at most MaxAbsent required keys are absent from the configuration document
MaxAbsent == 1

\* the configured port-forward table has at most MaxForwards entries
MaxForwards == 2

\* the configured user list has at most MaxUsers users
MaxUsers == 2

\* each renderer is called at most MaxRenders times on one loaded configuration
MaxRenders == 2

----------------------------------------------------------------------------
(* Program constants *)

\* faulty variant: the tools of media assembly are probed too
required_commands_all ==
    <<"qemu-system-x86_64", "qemu-img", "mkisofs", "dd", "mkfs.vfat", "sudo">>

\* required_commands of check_dependencies, in probe order
required_commands == <<"qemu-system-x86_64", "qemu-img", "mkisofs">>

\* the other programs create_config_iso runs: dd and mkfs.vfat directly,
\* mount, cp and umount through sudo
unprobed_commands == {"dd", "mkfs.vfat", "sudo", "mount", "cp", "umount"}

\* keys read by direct lookup (config[...][...]) somewhere in the program
RequiredKeys ==
    {"vm.name", "vm.work_dir", "vm.disk_size", "windows.users",
     "windows.web_project.source_folder", "windows.web_project.name",
     "windows.computer_name", "vm.iso_path", "vm.memory", "vm.cpus"}

\* faulty variant: the constructor also validates the user list
init_keys_eager == <<"vm.name", "vm.work_dir", "windows.users">>

\* keys looked up directly by __init__, in order
init_keys == <<"vm.name", "vm.work_dir">>

\* keys looked up directly by create_disk_image before anything else
disk_keys == <<"vm.disk_size">>

\* keys looked up directly by generate_autounattend_xml, in order
autounattend_keys == <<"windows.users">>

\* keys looked up directly by generate_setup_script, in order
setup_script_keys == <<"windows.web_project.source_folder", "windows.users">>

\* keys looked up directly when the fallback index.html is synthesized
fallback_page_keys == <<"windows.web_project.name", "windows.computer_name">>

\* keys looked up directly by start_vm before / after the media checks
iso_keys == <<"vm.iso_path">>
launch_keys == <<"vm.memory", "vm.cpus">>

\* faulty variant: media assembly is called before the disk is provisioned
deploy_steps_swapped ==
    <<"check_dependencies", "create_config_iso", "create_disk_image", "start_vm">>

\* the body of deploy: the steps in call order
deploy_steps ==
    <<"check_dependencies", "create_disk_image", "create_config_iso", "start_vm">>

\* faulty variant: the operator is asked before the run script is written
start_vm_order_prompt_first == <<"prompt", "write_run", "launch", "write_boot">>

\* the statements of start_vm after the QEMU command is composed, in order
start_vm_order == <<"write_run", "prompt", "launch", "write_boot">>

ReturnCodes == {0, 1}

Responses == {"y", "n", "eof"}

TempDirs == {"temp_dir", "floppy_dir", "mount_point"}

Artifacts == {"work_dir", "disk", "floppy_img", "config_iso", "run_script",
              "boot_script", "log"}

UserMedia == {"iso", "virtio", "web_source"}

----------------------------------------------------------------------------
(* Pure helpers *)

Range(s) == {s[i] : i \in 1..Len(s)}

\* faulty variant: the probe loop stops at the first command that is not resolved
MissingFrom_first_only(cmds, resolvable) ==
    IF \E i \in 1..Len(cmds) : cmds[i] \notin resolvable
    THEN <<cmds[CHOOSE i \in 1..Len(cmds) :
                 /\ cmds[i] \notin resolvable
                 /\ \A j \in 1..(i - 1) : cmds[j] \in resolvable]>>
    ELSE <<>>

RECURSIVE MissingFrom(_, _)
\* the loop of check_dependencies: every command that which() does not resolve
MissingFrom(cmds, resolvable) ==
    IF cmds = <<>> THEN <<>>
    ELSE IF Head(cmds) \in resolvable
         THEN MissingFrom(Tail(cmds), resolvable)
         ELSE <<Head(cmds)>> \o MissingFrom(Tail(cmds), resolvable)

RECURSIVE FirstAbsent(_, _)
\* the first key of keys whose direct lookup raises KeyError, or "none"
FirstAbsent(keys, cfg) ==
    IF keys = <<>> THEN "none"
    ELSE IF Head(keys) \notin cfg THEN Head(keys)
         ELSE FirstAbsent(Tail(keys), cfg)

\* faulty variant: check=True is left out, a non-zero exit code is ignored
check_omitted(rc) == FALSE

\* subprocess.run(..., check=True): raise CalledProcessError iff rc is non-zero
check(rc) == rc # 0

\* faulty variant: the existence test is left out, the disk is always created
reuse_disk_never(exists) == FALSE

\* create_disk_image: reuse the disk iff a file exists at disk_path
reuse_disk(exists) == exists

\* faulty variant: a missing virtio-win.iso is fatal too (what the docstring says)
media_check_strict(isoExists, virtioExists) ==
    [fatal |-> ~isoExists \/ ~virtioExists, warn |-> FALSE]

\* start_vm: the two media checks: [fatal, warn]
media_check(isoExists, virtioExists) ==
    [fatal |-> ~isoExists, warn |-> isoExists /\ ~virtioExists]

\* the step deploy calls after step s returned ("deploy_end": none is left)
RECURSIVE IndexOf(_, _)
IndexOf(s, x) == IF s = <<>> THEN 0
                 ELSE IF Head(s) = x THEN 1
                 ELSE IF IndexOf(Tail(s), x) = 0 THEN 0
                 ELSE 1 + IndexOf(Tail(s), x)

\* the events deploy's calls leave in steps
Call(op) == [op |-> op, ev |-> "call"]
Return(op) == [op |-> op, ev |-> "return"]

AfterStep(s) ==
    LET i == IndexOf(deploy_steps, s)
    IN IF i < Len(deploy_steps) THEN deploy_steps[i + 1] ELSE "deploy_end"

----------------------------------------------------------------------------
(* Configuration values.  An optional key is a set: {} when the key is      *)
(* absent and {v} when it holds v, so that dict.get(key, default) is Get.   *)

\* dict.get(key, default)
Get(opt, default) == IF opt = {} THEN default ELSE CHOOSE v \in opt : TRUE

\* the sequences over S of length at most n
SeqUpTo(S, n) == UNION {[1..k -> S] : k \in 0..n}

\* entries of vm.port_forwards
PortPairs == {[host |-> 8080, guest |-> 80], [host |-> 8443, guest |-> 443]}

\* values of vm.rdp: enabled and host_port may each be absent
RdpSettings ==
    {[enabled |-> e, host_port |-> h] : e \in {{}, {TRUE}, {FALSE}},
                                        h \in {{}, {3390}}}

\* entries of windows.users: group and description may be absent
UserPool ==
    {[username |-> "alice", password |-> "pw-alice",
      group |-> {"Administrators"}, description |-> {"Web admin"}],
     [username |-> "bob", password |-> "pw-bob",
      group |-> {"Users"}, description |-> {}],
     [username |-> "carol", password |-> "pw-carol",
      group |-> {}, description |-> {}]}

\* the keys of edition_mapping
EditionKeys == {"standard", "core", "datacenter", "datacenter-core"}

\* values of windows.windows_edition: absent, recognized, or not recognized
Editions == {{}} \cup {{k} : k \in EditionKeys \cup {"enterprise"}}

\* the values of vm.network_mode, vm.bridge_interface, vm.port_forwards,
\* vm.rdp, windows.users, windows.windows_edition and windows.computer_name
ConfigValues ==
    [network_mode : {{}, {"nat"}, {"bridge"}},
     bridge_interface : {{}, {"br1"}},
     port_forwards : {{}} \cup {{t} : t \in SeqUpTo(PortPairs, MaxForwards)},
     rdp : {{}} \cup {{r} : r \in RdpSettings},
     users : SeqUpTo(UserPool, MaxUsers),
     windows_edition : Editions,
     computer_name : {{}, {"WEB01"}}]

\* one configuration: nat, one forward, rdp enabled on host port 3390
SampleValues ==
    [network_mode |-> {"nat"},
     bridge_interface |-> {},
     port_forwards |-> {<<[host |-> 8080, guest |-> 80]>>},
     rdp |-> {[enabled |-> {TRUE}, host_port |-> {3390}]},
     users |-> <<CHOOSE u \in UserPool : u.username = "alice">>,
     windows_edition |-> {"standard"},
     computer_name |-> {"WEB01"}]

\* the values yaml.safe_load returns for a document: those of SampleValues,
\* without the computer name when the document has no windows.computer_name
yaml_values(doc) ==
    [SampleValues EXCEPT !.computer_name =
        IF "windows.computer_name" \in doc THEN @ ELSE {}]

----------------------------------------------------------------------------
(* generate_autounattend_xml: the answer file, as the image it selects and  *)
(* its <LocalAccount> entries in document order.                            *)

\* edition_mapping
edition_mapping ==
    [k \in EditionKeys |->
        CASE k = "standard" -> "Windows Server 2022 SERVERSTANDARD"
          [] k = "core" -> "Windows Server 2022 SERVERSTANDARDCORE"
          [] k = "datacenter" -> "Windows Server 2022 SERVERDATACENTER"
          [] k = "datacenter-core" -> "Windows Server 2022 SERVERDATACENTERCORE"]

\* faulty variant: a key that is not recognized selects the core image
image_name_unknown_core(windows_edition) ==
    IF windows_edition \in DOMAIN edition_mapping
    THEN edition_mapping[windows_edition]
    ELSE edition_mapping["core"]

\* edition_mapping.get(windows_edition, 'Windows Server 2022 SERVERSTANDARD')
image_name(windows_edition) ==
    IF windows_edition \in DOMAIN edition_mapping
    THEN edition_mapping[windows_edition]
    ELSE "Windows Server 2022 SERVERSTANDARD"

\* the <LocalAccount wcm:action="add"> block rendered for one user
LocalAccount(user) ==
    [Password |-> user.password,
     Description |-> Get(user.description, ""),
     DisplayName |-> user.username,
     Group |-> Get(user.group, "Users"),
     Name |-> user.username]

\* faulty variant: only the first user gets an account entry
users_xml_first_only(users) ==
    IF users = <<>> THEN <<>> ELSE <<LocalAccount(Head(users))>>

RECURSIVE users_xml(_)
\* the loop over windows.users that builds users_xml
users_xml(users) ==
    IF users = <<>> THEN <<>>
    ELSE <<LocalAccount(Head(users))>> \o users_xml(Tail(users))

\* faulty variant: the number of the rendering is embedded in the output
generate_autounattend_xml_stamped(c) ==
    [image_name |-> image_name(Get(c.windows_edition, "standard")),
     LocalAccounts |-> users_xml(c.users),
     ComputerName |-> Get(c.computer_name, "WIN-SERVER"),
     stamp |-> {Len(xmls)}]

\* the rendered answer file
generate_autounattend_xml(c) ==
    [image_name |-> image_name(Get(c.windows_edition, "standard")),
     LocalAccounts |-> users_xml(c.users),
     ComputerName |-> Get(c.computer_name, "WIN-SERVER")]

----------------------------------------------------------------------------
(* generate_setup_script: the setup script, as its statements in order.     *)

\* a statement of the script: the cmdlet, what it names, its -LocalPort
Stmt(cmdlet, arg) == [cmdlet |-> cmdlet, arg |-> arg, LocalPort |-> {}]
FirewallRule(name, port) ==
    [cmdlet |-> "New-NetFirewallRule", arg |-> name, LocalPort |-> {port}]

\* the head of the script: transcript, IIS, the two fixed firewall rules
web_server_statements ==
    <<Stmt("Start-Transcript", "setup_log.txt"),
      Stmt("Install-WindowsFeature", "Web-Server"),
      Stmt("Install-WindowsFeature", "Web-Mgmt-Console"),
      FirewallRule("Allow HTTP", 80),
      FirewallRule("Allow HTTPS", 443)>>

\* the block appended when remote desktop is enabled
rdp_statements ==
    <<Stmt("Set-ItemProperty", "fDenyTSConnections"),
      Stmt("Enable-NetFirewallRule", "Remote Desktop"),
      FirewallRule("Allow RDP", 3389)>>

\* the web project block
web_project_statements ==
    <<Stmt("Copy-Item", "F:/web"), Stmt("iisreset", "")>>

\* the tail of the script
closing_statements ==
    <<Stmt("Set-ItemProperty", "AdminKey IsInstalled"),
      Stmt("Set-ItemProperty", "UserKey IsInstalled"),
      Stmt("Get-LocalUser", ""),
      Stmt("Stop-Transcript", ""),
      Stmt("Remove-ItemProperty", "AutoAdminLogon")>>

\* vm.rdp as read by .get('rdp', {})
rdp_config(c) == Get(c.rdp, [enabled |-> {}, host_port |-> {}])

\* faulty variant: remote desktop counts as enabled whatever is configured
rdp_enabled_always(c) == TRUE

\* rdp_config.get('enabled', False)
rdp_enabled(c) == Get(rdp_config(c).enabled, FALSE)

\* faulty variant: a user without a group counts as an administrator
is_admin_by_default(user) == Get(user.group, "Administrators") = "Administrators"

\* user.get('group', 'Users') == 'Administrators'
is_admin(user) == Get(user.group, "Users") = "Administrators"

RECURSIVE admin_statements(_)
\* the loop over windows.users that adds administrators to their group
admin_statements(users) ==
    IF users = <<>> THEN <<>>
    ELSE (IF is_admin(Head(users))
          THEN <<Stmt("Add-LocalGroupMember", Head(users).username)>>
          ELSE <<>>) \o admin_statements(Tail(users))

\* the rendered setup script
generate_setup_script(c) ==
    web_server_statements
        \o (IF rdp_enabled(c) THEN rdp_statements ELSE <<>>)
        \o web_project_statements
        \o admin_statements(c.users)
        \o closing_statements

----------------------------------------------------------------------------
(* start_vm: the network clause and the two launch scripts.                 *)

\* the table used when vm.port_forwards is absent
default_port_forwards == <<[host |-> 8080, guest |-> 80]>>

\* the entry for remote desktop: the configured host port, guest port 3389
rdp_forward(c) ==
    [host |-> Get(rdp_config(c).host_port, 3389), guest |-> 3389]

\* faulty variant: the remote-desktop entry is appended whatever is configured
with_rdp_always(port_forwards, c) == Append(port_forwards, rdp_forward(c))

\* port_forwards after "if rdp_config.get('enabled', False): append(...)"
with_rdp(port_forwards, c) ==
    IF rdp_enabled(c) THEN Append(port_forwards, rdp_forward(c))
    ELSE port_forwards

\* f"hostfwd=tcp::{pf['host']}-:{pf['guest']}"
hostfwd(pf) == [proto |-> "tcp", host |-> pf.host, guest |-> pf.guest]

\* the list comprehension over port_forwards that ','.join receives
hostfwd_rules(port_forwards) ==
    [i \in 1..Len(port_forwards) |-> hostfwd(port_forwards[i])]

\* faulty variant: the launch is never prefixed with sudo
requires_sudo_never(network_mode) == ""

\* requires_sudo: "sudo " in bridge mode, "" otherwise
requires_sudo(network_mode) == IF network_mode = "bridge" THEN "sudo " ELSE ""

\* network_config: the bridged device, or the user-mode device and its rules
network_config(c) ==
    IF Get(c.network_mode, "nat") = "bridge"
    THEN [netdev |-> "bridge",
          br |-> {Get(c.bridge_interface, "br0")},
          hostfwd |-> <<>>]
    ELSE [netdev |-> "user",
          br |-> {},
          hostfwd |-> hostfwd_rules(
              with_rdp(Get(c.port_forwards, default_port_forwards), c))]

\* self.config after start_vm: in nat mode port_forwards is the list held by
\* the configuration when the key is present, and append changes it in place
config_after_start_vm(c) ==
    IF Get(c.network_mode, "nat") # "bridge" /\ c.port_forwards # {}
    THEN [c EXCEPT !.port_forwards =
              {with_rdp(Get(c.port_forwards, default_port_forwards), c)}]
    ELSE c

\* run_<name>.sh: boots from the installation media
run_script(c) ==
    [prefix |-> requires_sudo(Get(c.network_mode, "nat")),
     boot |-> "order=d",
     cdroms |-> <<"virtio_iso", "iso", "config_iso">>,
     network |-> network_config(c)]

\* boot_<name>.sh: boots from the disk
boot_script(c) ==
    [prefix |-> requires_sudo(Get(c.network_mode, "nat")),
     boot |-> "c",
     cdroms |-> <<>>,
     network |-> network_config(c)]

----------------------------------------------------------------------------
(* The initial state.  The environment (the configuration document, the   *)
(* tools on the path, the user's media) is read by the program at most once *)
(* per run; the model fixes what it holds at the moment it is read, and     *)
(* configFile, document, path and the user media in files record that.      *)

\* configuration documents that parse: at most MaxAbsent required keys absent
Documents ==
    {RequiredKeys \ a : a \in {s \in SUBSET RequiredKeys : Cardinality(s) <= MaxAbsent}}

\* the per-run state of a freshly started process
FreshProcess ==
    /\ pc = "main"
    /\ exitStatus = {}
    /\ exc = "none"
    /\ failure = "none"
    /\ keyError = "none"
    /\ config = {}
    /\ tempdirs = {}
    /\ mounted = FALSE
    /\ written = {}
    /\ steps = <<>>
    /\ reports = <<>>
    /\ calls = <<>>
    /\ warned = FALSE
    /\ response = "none"
    /\ phase = 1
    /\ promptSeen = {}
    /\ bgProc = "none"

\* the first run starts in an empty work directory
FirstRun ==
    /\ FreshProcess
    /\ run = 1
    /\ configFile = "ok"
    /\ document = RequiredKeys
    /\ files = UserMedia
    /\ disk = "absent"
    /\ execs = {}
    /\ diskCalls = <<>>
    /\ dangling = 0
    /\ earlier = <<>>

\* nothing has been rendered from the values v of the configuration
Loaded(v) ==
    /\ configValues = v
    /\ loadedValues = v
    /\ xmls = <<>>
    /\ scripts = <<>>
    /\ launches = <<>>

\* every program the run needs is on the path
AllTools == path = Range(required_commands) \cup unprobed_commands

Init == FirstRun /\ AllTools /\ Loaded(SampleValues)

----------------------------------------------------------------------------
(* Ways a run ends *)

\* sys.exit(1), or an exception nobody catches: the interpreter exits 1
Die(reason) ==
    /\ pc' = "exited"
    /\ exitStatus' = {1}
    /\ failure' = reason

\* the failure an uncaught exception of kind e is recorded as
ReasonOf(e) ==
    CASE e = "KeyError" -> "missing_key"
      [] e = "CalledProcessError" -> "tool_failed"
      [] e = "OSError" -> "os_error"
      [] e = "EOFError" -> "eof"
      [] e = "FileNotFoundError" -> "tool_not_found"
      [] OTHER -> e

----------------------------------------------------------------------------
(* main and the constructor *)

\* main: the existence check of the configuration file
main ==
    /\ pc = "main"
    /\ configFile' \in {"missing", "malformed", "ok"}
    /\ IF configFile' = "missing"
       THEN Die("config_missing")
       ELSE /\ pc' = "init"
            /\ UNCHANGED <<exitStatus, failure>>
    /\ UNCHANGED <<run, earlier, renderVars, exc, keyError, document, config, path,
                   files, disk, execs, tempdirs, mounted, written, steps,
                   reports, calls, warned, response, phase,
                   promptSeen, bgProc, diskCalls, dangling>>

\* faulty variant: the work directory is created before the document is loaded
Deployer_init_mkdir_first ==
    /\ pc = "init"
    /\ files' = files \cup {"work_dir"}
    /\ written' = written \cup ({"work_dir"} \ files)
    /\ IF configFile = "malformed"
       THEN /\ Die("malformed")
            /\ UNCHANGED <<document, config, keyError>>
            /\ UNCHANGED <<configValues, loadedValues>>
       ELSE /\ document' \in Documents
            /\ config' = document'
            /\ configValues' = yaml_values(document')
            /\ loadedValues' = yaml_values(document')
            /\ LET k == FirstAbsent(init_keys, config')
               IN IF k # "none"
                  THEN keyError' = k /\ Die("missing_key")
                  ELSE /\ pc' = deploy_steps[1]
                       /\ UNCHANGED <<keyError, exitStatus, failure>>
    /\ UNCHANGED <<run, earlier, xmls, scripts, launches, exc, configFile,
                   path, disk, execs, tempdirs, mounted, steps, reports, calls,
                   warned, response, phase, promptSeen, bgProc, diskCalls,
                   dangling>>

\* WindowsVMDeployer.__init__: load the document, read vm.name and
\* vm.work_dir, create the work directory; main then calls deploy
Deployer_init ==
    /\ pc = "init"
    /\ IF configFile = "malformed"
       THEN /\ Die("malformed")
            /\ UNCHANGED <<document, config, keyError, files, written>>
            /\ UNCHANGED <<configValues, loadedValues>>
       ELSE /\ document' \in Documents
            /\ config' = document'
            /\ configValues' = yaml_values(document')
            /\ loadedValues' = yaml_values(document')
            /\ LET k == FirstAbsent(init_keys, config')
               IN IF k # "none"
                  THEN /\ keyError' = k
                       /\ Die("missing_key")
                       /\ UNCHANGED <<files, written>>
                  ELSE /\ files' = files \cup {"work_dir"}
                       /\ written' = written \cup ({"work_dir"} \ files)
                       /\ pc' = deploy_steps[1]
                       /\ UNCHANGED <<keyError, exitStatus, failure>>
    /\ UNCHANGED <<run, earlier, xmls, scripts, launches, exc, configFile,
                   path, disk, execs, tempdirs, mounted, steps, reports, calls,
                   warned, response, phase, promptSeen, bgProc, diskCalls,
                   dangling>>

----------------------------------------------------------------------------
(* deploy, step 1: check_dependencies *)

check_dependencies ==
    /\ pc = "check_dependencies"
    /\ \E found \in SUBSET Range(required_commands) :
           path' = found \cup (path \ Range(required_commands))
    /\ LET missing == MissingFrom(required_commands, path')
       IN IF missing # <<>>
          THEN /\ reports' = Append(reports, missing)
               /\ steps' = Append(steps, Call("check_dependencies"))
               /\ Die("dependency_missing")
          ELSE /\ pc' = AfterStep("check_dependencies")
               /\ steps' = steps \o <<Call("check_dependencies"), Return("check_dependencies")>>
               /\ UNCHANGED <<reports, exitStatus, failure>>
    /\ UNCHANGED <<run, earlier, renderVars, exc, keyError, configFile, document, config,
                   files, disk, execs, tempdirs, mounted, written, calls,
                   warned, response, phase, promptSeen, bgProc,
                   diskCalls, dangling>>

----------------------------------------------------------------------------
(* deploy, step 2: create_disk_image *)

create_disk_image ==
    /\ pc = "create_disk_image"
    /\ LET k == FirstAbsent(disk_keys, config)
       IN IF k # "none"
          THEN /\ keyError' = k
               /\ Die("missing_key")
               /\ steps' = Append(steps, Call("create_disk_image"))
               /\ UNCHANGED <<disk, written, calls, diskCalls>>
          ELSE IF reuse_disk(disk # "absent")
          THEN /\ diskCalls' = Append(diskCalls,
                      [existed |-> disk, invoked |-> FALSE, rc |-> 0, returned |-> "disk_path"])
               /\ pc' = AfterStep("create_disk_image")
               /\ steps' = steps \o <<Call("create_disk_image"), Return("create_disk_image")>>
               /\ UNCHANGED <<keyError, exitStatus, failure, disk, written, calls>>
          ELSE \E rc \in ReturnCodes, left \in {"absent", "partial"} :
               \* qemu-img create runs; a failing run may leave a partial file
               /\ rc = 0 => left = "absent"
               /\ calls' = Append(calls, [tool |-> "qemu-img", rc |-> rc])
               /\ disk' = IF rc = 0 THEN "good"
                          ELSE IF disk # "absent" THEN "partial" ELSE left
               /\ written' = IF disk' # "absent" THEN written \cup {"disk"} ELSE written
               /\ UNCHANGED keyError
               /\ IF check(rc)
                  THEN /\ Die("tool_failed")
                       /\ steps' = Append(steps, Call("create_disk_image"))
                       /\ diskCalls' = Append(diskCalls,
                              [existed |-> disk, invoked |-> TRUE, rc |-> rc, returned |-> "raised"])
                  ELSE /\ diskCalls' = Append(diskCalls,
                              [existed |-> disk, invoked |-> TRUE, rc |-> rc, returned |-> "disk_path"])
                       /\ pc' = AfterStep("create_disk_image")
                       /\ steps' = steps \o <<Call("create_disk_image"), Return("create_disk_image")>>
                       /\ UNCHANGED <<exitStatus, failure>>
    /\ UNCHANGED <<run, earlier, renderVars, exc, configFile, document, config, path, files, execs,
                   tempdirs, mounted, reports, warned, response, phase,
                   promptSeen, bgProc, dangling>>

----------------------------------------------------------------------------
(* deploy, step 3: create_config_iso (renders both texts, builds both media) *)

\* the variables create_config_iso never touches
cciFrame == <<run, earlier, configFile, document, config, path, disk, execs, reports,
              warned, response, phase, promptSeen, bgProc, diskCalls,
              dangling, exitStatus, failure>>

\* temp_dir and floppy_dir are created, Autounattend.xml is rendered into
\* floppy_dir; a KeyError of the renderer leaves through the outer finally
create_config_iso ==
    /\ pc = "create_config_iso"
    /\ steps' = Append(steps, Call("create_config_iso"))
    /\ tempdirs' = tempdirs \cup {"temp_dir", "floppy_dir"}
    /\ LET k == FirstAbsent(autounattend_keys, config)
       IN IF k # "none"
          THEN /\ keyError' = k
               /\ exc' = "KeyError"
               /\ pc' = "cci_finally_outer"
          ELSE /\ pc' = "cci_dd"
               /\ UNCHANGED <<keyError, exc>>
    /\ xmls' = IF FirstAbsent(autounattend_keys, config) = "none"
               THEN Append(xmls, generate_autounattend_xml(configValues))
               ELSE xmls
    /\ UNCHANGED <<files, mounted, written, calls>>
    /\ UNCHANGED cciFrame
    /\ UNCHANGED <<configValues, loadedValues, scripts, launches>>

\* the exit codes of "sudo <command> ...": sudo itself exits 1 when it does
\* not find the command
sudo_codes(command) == IF command \in path THEN ReturnCodes ELSE {1}

\* dd if=/dev/zero of=floppy_img bs=1024 count=1440; subprocess.run raises
\* FileNotFoundError when the program is not on the path
cci_dd ==
    /\ pc = "cci_dd"
    /\ IF "dd" \notin path
       THEN /\ exc' = "FileNotFoundError"
            /\ pc' = "cci_finally_outer"
            /\ UNCHANGED <<calls, files, written>>
       ELSE \E rc \in ReturnCodes :
            /\ calls' = Append(calls, [tool |-> "dd", rc |-> rc])
            /\ files' = IF rc = 0 THEN files \cup {"floppy_img"} ELSE files
            /\ written' = IF rc = 0 THEN written \cup {"floppy_img"} ELSE written
            /\ IF check(rc)
               THEN exc' = "CalledProcessError" /\ pc' = "cci_finally_outer"
               ELSE exc' = exc /\ pc' = "cci_mkfs"
    /\ UNCHANGED <<keyError, tempdirs, mounted, steps>>
    /\ UNCHANGED cciFrame
    /\ UNCHANGED renderVars

\* mkfs.vfat floppy_img
cci_mkfs ==
    /\ pc = "cci_mkfs"
    /\ IF "mkfs.vfat" \notin path
       THEN /\ exc' = "FileNotFoundError"
            /\ pc' = "cci_finally_outer"
            /\ UNCHANGED calls
       ELSE \E rc \in ReturnCodes :
            /\ calls' = Append(calls, [tool |-> "mkfs.vfat", rc |-> rc])
            /\ IF check(rc)
               THEN exc' = "CalledProcessError" /\ pc' = "cci_finally_outer"
               ELSE exc' = exc /\ pc' = "cci_mount"
    /\ UNCHANGED <<keyError, files, written, tempdirs, mounted, steps>>
    /\ UNCHANGED cciFrame
    /\ UNCHANGED renderVars

\* mount_point is created; inside the inner try: sudo mount -o loop
cci_mount ==
    /\ pc = "cci_mount"
    /\ tempdirs' = tempdirs \cup {"mount_point"}
    /\ IF "sudo" \notin path
       THEN /\ exc' = "FileNotFoundError"
            /\ pc' = "cci_finally_inner"
            /\ UNCHANGED <<calls, mounted>>
       ELSE \E rc \in sudo_codes("mount") :
            /\ calls' = Append(calls, [tool |-> "mount", rc |-> rc])
            /\ mounted' = (rc = 0)
            /\ IF check(rc)
               THEN exc' = "CalledProcessError" /\ pc' = "cci_finally_inner"
               ELSE exc' = exc /\ pc' = "cci_cp"
    /\ UNCHANGED <<keyError, files, written, steps>>
    /\ UNCHANGED cciFrame
    /\ UNCHANGED renderVars

\* sudo cp Autounattend.xml mount_point
cci_cp ==
    /\ pc = "cci_cp"
    /\ \E rc \in sudo_codes("cp") :
        /\ calls' = Append(calls, [tool |-> "cp", rc |-> rc])
        /\ IF check(rc)
           THEN exc' = "CalledProcessError" /\ pc' = "cci_finally_inner"
           ELSE exc' = exc /\ pc' = "cci_umount"
    /\ UNCHANGED <<keyError, files, written, tempdirs, mounted, steps>>
    /\ UNCHANGED cciFrame
    /\ UNCHANGED renderVars

\* sudo umount mount_point: the last statement of the inner try
cci_umount ==
    /\ pc = "cci_umount"
    /\ \E rc \in sudo_codes("umount") :
        /\ calls' = Append(calls, [tool |-> "umount", rc |-> rc])
        /\ mounted' = IF rc = 0 THEN FALSE ELSE mounted
        /\ exc' = IF check(rc) THEN "CalledProcessError" ELSE exc
    /\ pc' = "cci_finally_inner"
    /\ UNCHANGED <<keyError, files, written, tempdirs, steps>>
    /\ UNCHANGED cciFrame
    /\ UNCHANGED renderVars

\* the inner finally: rmtree(mount_point), then rmtree(floppy_dir).  rmdir of
\* a directory something is mounted on fails (EBUSY): rmtree raises OSError,
\* the directory stays and the second rmtree is not reached
cci_finally_inner ==
    /\ pc = "cci_finally_inner"
    /\ IF mounted
       THEN /\ exc' = "OSError"
            /\ pc' = "cci_finally_outer"
            /\ UNCHANGED tempdirs
       ELSE /\ tempdirs' = tempdirs \ {"mount_point", "floppy_dir"}
            /\ pc' = IF exc = "none" THEN "cci_stage" ELSE "cci_finally_outer"
            /\ UNCHANGED exc
    /\ UNCHANGED <<keyError, files, written, mounted, steps, calls>>
    /\ UNCHANGED cciFrame
    /\ UNCHANGED renderVars

\* the keys whose direct lookup the staging of setup.ps1 and web/ performs
stage_keys(webSourceExists) ==
    setup_script_keys \o <<"windows.web_project.source_folder">>
        \o (IF webSourceExists THEN <<>> ELSE fallback_page_keys)

\* setup.ps1 is rendered into temp_dir; web/ is filled from the source folder
\* or with the fallback index.html
cci_stage ==
    /\ pc = "cci_stage"
    /\ \E src \in SUBSET {"web_source"} : files' = (files \ {"web_source"}) \cup src
    /\ LET k == FirstAbsent(stage_keys("web_source" \in files'), config)
       IN IF k # "none"
          THEN /\ keyError' = k
               /\ exc' = "KeyError"
               /\ pc' = "cci_finally_outer"
          ELSE /\ pc' = "cci_mkisofs"
               /\ UNCHANGED <<keyError, exc>>
    /\ scripts' = IF FirstAbsent(setup_script_keys, config) = "none"
                  THEN Append(scripts, generate_setup_script(configValues))
                  ELSE scripts
    /\ UNCHANGED <<written, tempdirs, mounted, steps, calls>>
    /\ UNCHANGED cciFrame
    /\ UNCHANGED <<configValues, loadedValues, xmls, launches>>

\* mkisofs -o config_iso -J -r -V CONFIG temp_dir
cci_mkisofs ==
    /\ pc = "cci_mkisofs"
    /\ \E rc \in ReturnCodes :
        /\ calls' = Append(calls, [tool |-> "mkisofs", rc |-> rc])
        /\ files' = IF rc = 0 THEN files \cup {"config_iso"} ELSE files
        /\ written' = IF rc = 0 THEN written \cup {"config_iso"} ELSE written
        /\ exc' = IF check(rc) THEN "CalledProcessError" ELSE exc
    /\ pc' = "cci_finally_outer"
    /\ UNCHANGED <<keyError, tempdirs, mounted, steps>>
    /\ UNCHANGED cciFrame
    /\ UNCHANGED renderVars

\* the outer finally: rmtree(temp_dir); then the return, or the exception
\* in flight leaves create_config_iso, deploy and main uncaught
cci_finally_outer ==
    /\ pc = "cci_finally_outer"
    /\ tempdirs' = tempdirs \ {"temp_dir"}
    /\ IF exc = "none"
       THEN /\ pc' = AfterStep("create_config_iso")
            /\ steps' = Append(steps, Return("create_config_iso"))
            /\ UNCHANGED <<exitStatus, failure>>
       ELSE Die(ReasonOf(exc)) /\ UNCHANGED steps
    /\ UNCHANGED <<run, earlier, renderVars, configFile, document, config, path, disk, execs,
                   reports, warned, response, phase, promptSeen, bgProc,
                   diskCalls, dangling>>
    /\ UNCHANGED <<keyError, exc, files, written, mounted, calls>>

----------------------------------------------------------------------------
(* deploy, step 4: start_vm *)

\* the variables start_vm never touches
svFrame == <<run, earlier, exc, configFile, document, config, path, disk, tempdirs,
             mounted, reports, diskCalls, dangling>>

\* the media checks, then the configuration lookups that compose the command
start_vm ==
    /\ pc = "start_vm"
    /\ steps' = Append(steps, Call("start_vm"))
    /\ phase' = 1
    /\ \E media \in SUBSET {"iso", "virtio"} :
           files' = (files \ {"iso", "virtio"}) \cup media
    /\ LET k == FirstAbsent(iso_keys, config)
           m == media_check("iso" \in files', "virtio" \in files')
           l == FirstAbsent(launch_keys, config)
       IN IF k # "none"
          THEN keyError' = k /\ Die("missing_key") /\ UNCHANGED warned
          ELSE IF m.fatal
          THEN Die("iso_missing") /\ UNCHANGED <<keyError, warned>>
          ELSE IF l # "none"
          THEN keyError' = l /\ Die("missing_key") /\ warned' = m.warn
          ELSE /\ warned' = m.warn
               /\ pc' = "sv_phase"
               /\ UNCHANGED <<keyError, exitStatus, failure>>
    /\ IF pc' = "sv_phase"
       THEN /\ launches' = Append(launches, [run |-> run_script(configValues),
                                             boot |-> boot_script(configValues)])
            /\ configValues' = config_after_start_vm(configValues)
       ELSE UNCHANGED <<launches, configValues>>
    /\ UNCHANGED <<execs, written, calls, response, promptSeen, bgProc>>
    /\ UNCHANGED svFrame
    /\ UNCHANGED <<loadedValues, xmls, scripts>>

\* the statement of start_vm that runs next
Phase == start_vm_order[phase]

\* after a phase: the next one, or start_vm returns to deploy
NextPhase ==
    IF phase < Len(start_vm_order)
    THEN phase' = phase + 1 /\ pc' = "sv_phase" /\ steps' = steps
    ELSE /\ phase' = phase
         /\ pc' = AfterStep("start_vm")
         /\ steps' = Append(steps, Return("start_vm"))

\* run_<name>.sh is written and marked executable
sv_write_run ==
    /\ pc = "sv_phase" /\ Phase = "write_run"
    /\ files' = files \cup {"run_script"}
    /\ execs' = execs \cup {"run_script"}
    /\ written' = written \cup {"run_script"}
    /\ NextPhase
    /\ UNCHANGED <<exitStatus, failure, keyError, calls, warned,
                   response, promptSeen, bgProc>>
    /\ UNCHANGED svFrame
    /\ UNCHANGED renderVars

\* the prompt and input(): the operator answers, or stdin is at end of file
sv_prompt ==
    /\ pc = "sv_phase" /\ Phase = "prompt"
    /\ promptSeen' = {s \in {"run_script", "boot_script"} : s \in written /\ s \in execs}
    /\ \E r \in Responses :
        /\ response' = r
        /\ IF r = "eof"
           THEN Die("eof") /\ UNCHANGED <<phase, steps>>
           ELSE NextPhase /\ UNCHANGED <<exitStatus, failure>>
    /\ UNCHANGED <<keyError, calls, warned, files, execs, written, bgProc>>
    /\ UNCHANGED svFrame
    /\ UNCHANGED renderVars

\* faulty variant: the answer is not looked at, the VM is always launched
accepted_always(answer) == TRUE

\* the test on the stripped, lower-cased answer: only "y" accepts the launch
accepted(answer) == answer = "y"

\* on "y": the log file is opened and the run script is started with Popen,
\* which returns as soon as the process exists and is never waited for
sv_launch ==
    /\ pc = "sv_phase" /\ Phase = "launch"
    /\ IF accepted(response)
       THEN /\ files' = files \cup {"log"}
            /\ written' = written \cup {"log"}
            /\ calls' = Append(calls, [tool |-> "popen", rc |-> 0])
            /\ bgProc' = "running"
       ELSE UNCHANGED <<files, written, calls, bgProc>>
    /\ NextPhase
    /\ UNCHANGED <<exitStatus, failure, keyError, warned, response,
                   promptSeen, execs>>
    /\ UNCHANGED svFrame
    /\ UNCHANGED renderVars

\* boot_<name>.sh is written and marked executable
sv_write_boot ==
    /\ pc = "sv_phase" /\ Phase = "write_boot"
    /\ files' = files \cup {"boot_script"}
    /\ execs' = execs \cup {"boot_script"}
    /\ written' = written \cup {"boot_script"}
    /\ NextPhase
    /\ UNCHANGED <<exitStatus, failure, keyError, calls, warned,
                   response, promptSeen, bgProc>>
    /\ UNCHANGED svFrame
    /\ UNCHANGED renderVars

\* deploy prints its last message and returns; main returns; exit status 0
deploy_end ==
    /\ pc = "deploy_end"
    /\ pc' = "exited"
    /\ exitStatus' = {0}
    /\ UNCHANGED <<run, earlier, renderVars, exc, failure, keyError, configFile, document, config,
                   path, files, disk, execs, tempdirs, mounted, written,
                   steps, reports, calls, warned, response, phase,
                   promptSeen, bgProc, diskCalls, dangling>>

----------------------------------------------------------------------------
(* The environment *)

\* the detached QEMU process ends on its own, with any status, at any time
BackgroundExit ==
    /\ bgProc = "running"
    /\ \E rc \in ReturnCodes : bgProc' = IF rc = 0 THEN "exit0" ELSE "exit1"
    /\ UNCHANGED <<pc, run, earlier, renderVars, exitStatus, exc, failure, keyError, configFile,
                   document, config, path, files, disk, execs, tempdirs,
                   mounted, written, steps, reports, calls,
                   warned, response, phase, promptSeen, diskCalls,
                   dangling>>

\* the operator runs the program again: a new process, the same filesystem
\* (work directory and artifacts); the new run reads the environment anew
\* and loads the configuration values again
Rerun ==
    /\ pc = "exited"
    /\ run < MaxRuns
    /\ run' = run + 1
    /\ pc' = "main"
    /\ exitStatus' = {}
    /\ exc' = "none"
    /\ failure' = "none"
    /\ keyError' = "none"
    /\ config' = {}
    /\ tempdirs' = {}
    /\ mounted' = FALSE
    /\ written' = {}
    /\ steps' = <<>>
    /\ reports' = <<>>
    /\ calls' = <<>>
    /\ warned' = FALSE
    /\ response' = "none"
    /\ phase' = 1
    /\ promptSeen' = {}
    /\ bgProc' = "none"
    /\ dangling' = IF mounted THEN dangling + 1 ELSE dangling
    /\ earlier' = Append(earlier, [status |-> exitStatus, written |-> written])
    /\ configValues' = loadedValues
    /\ xmls' = <<>>
    /\ scripts' = <<>>
    /\ launches' = <<>>
    /\ UNCHANGED <<configFile, document, path, files, disk, execs, diskCalls,
                   loadedValues>>

\* the steps of one execution of the program
Run ==
    \/ main
    \/ Deployer_init
    \/ check_dependencies
    \/ create_disk_image
    \/ create_config_iso
    \/ cci_dd
    \/ cci_mkfs
    \/ cci_mount
    \/ cci_cp
    \/ cci_umount
    \/ cci_finally_inner
    \/ cci_stage
    \/ cci_mkisofs
    \/ cci_finally_outer
    \/ start_vm
    \/ sv_write_run
    \/ sv_prompt
    \/ sv_launch
    \/ sv_write_boot
    \/ deploy_end
    \/ BackgroundExit

Next == Run \/ Rerun

Spec == Init /\ [][Next]_vars

\* one execution in an environment that lacks at most MaxAbsent of the
\* programs check_dependencies does not probe
InitTools ==
    /\ FirstRun
    /\ Loaded(SampleValues)
    /\ \E a \in {s \in SUBSET unprobed_commands : Cardinality(s) <= MaxAbsent} :
           path = (Range(required_commands) \cup unprobed_commands) \ a

SpecTools == InitTools /\ [][Run]_vars

----------------------------------------------------------------------------
(* Rendering.  What the renderers and start_vm put into the answer file,    *)
(* the setup script and the launch scripts is a function of the loaded      *)
(* configuration values alone; the specifications below draw the values     *)
(* from ConfigValues and apply the three operations to them.  deploy calls  *)
(* start_vm once per process; the renderers may be called again.            *)

\* the variables of the deployment run, which rendering leaves alone
deployVars == <<pc, run, exitStatus, exc, failure, keyError, configFile,
                document, config, path, files, disk, execs, tempdirs, mounted,
                written, steps, reports, calls, warned, response, phase,
                promptSeen, bgProc, diskCalls, dangling, earlier>>

\* generate_autounattend_xml() is called and returns the answer file
render_autounattend ==
    /\ Len(xmls) < MaxRenders
    /\ xmls' = Append(xmls, generate_autounattend_xml(configValues))
    /\ UNCHANGED <<configValues, loadedValues, scripts, launches>>
    /\ UNCHANGED deployVars

\* generate_setup_script() is called and returns the setup script
render_setup_script ==
    /\ Len(scripts) < MaxRenders
    /\ scripts' = Append(scripts, generate_setup_script(configValues))
    /\ UNCHANGED <<configValues, loadedValues, xmls, launches>>
    /\ UNCHANGED deployVars

\* start_vm composes the network clause once and writes it into both scripts
compose_launch ==
    /\ launches = <<>>
    /\ launches' = <<[run |-> run_script(configValues),
                      boot |-> boot_script(configValues)]>>
    /\ configValues' = config_after_start_vm(configValues)
    /\ UNCHANGED <<loadedValues, xmls, scripts>>
    /\ UNCHANGED deployVars

NextRender ==
    \/ render_autounattend
    \/ render_setup_script
    \/ compose_launch

\* configurations that differ in what start_vm reads
LaunchValues ==
    {v \in ConfigValues : /\ v.users = SampleValues.users
                          /\ v.windows_edition = SampleValues.windows_edition
                          /\ v.computer_name = SampleValues.computer_name}

\* configurations that differ in what the renderers read
RenderValues ==
    {v \in ConfigValues : /\ v.network_mode = SampleValues.network_mode
                          /\ v.bridge_interface = SampleValues.bridge_interface
                          /\ v.port_forwards = SampleValues.port_forwards}

InitLaunch == FirstRun /\ AllTools /\ \E v \in LaunchValues : Loaded(v)

InitRender == FirstRun /\ AllTools /\ \E v \in RenderValues : Loaded(v)

SpecLaunch == InitLaunch /\ [][NextRender]_vars

SpecRender == InitRender /\ [][NextRender]_vars

----------------------------------------------------------------------------
(* Observations used by the properties *)

\* the deploy steps this run has called / has seen return, in order
Started == SelectSeq(steps, LAMBDA e : e.ev = "call")
Returned == SelectSeq(steps, LAMBDA e : e.ev = "return")
HasStarted(op) == \E i \in 1..Len(steps) : steps[i] = Call(op)
HasReturned(op) == \E i \in 1..Len(steps) : steps[i] = Return(op)

\* the tool was invoked in this run / returned rc
Invoked(tool) == \E i \in 1..Len(calls) : calls[i].tool = tool
InvokedWith(tool, rc) == \E i \in 1..Len(calls) : calls[i] = [tool |-> tool, rc |-> rc]

\* an awaited external tool of this run returned non-zero
ToolFailed == \E i \in 1..Len(calls) : calls[i].tool # "popen" /\ calls[i].rc # 0

\* the positions inside create_config_iso
CciPcs == {"cci_dd", "cci_mkfs", "cci_mount", "cci_cp", "cci_umount",
           "cci_finally_inner", "cci_stage", "cci_mkisofs", "cci_finally_outer"}

\* create_config_iso was entered by this run and has been left
CciExited == HasStarted("create_config_iso") /\ pc \notin CciPcs

----------------------------------------------------------------------------
(* C1: in create_config_iso, once the loopback mount has succeeded, umount  *)
(* is invoked before the operation is left, on every exit path (also when   *)
(* the copy onto the mount fails).                                          *)

C1_UnmountOnEveryExit ==
    (CciExited /\ InvokedWith("mount", 0)) => Invoked("umount")

----------------------------------------------------------------------------
(* C2: whenever create_config_iso is left, normally or by a failed external *)
(* step, every temporary directory it created has been removed.             *)

C2_TempDirsRemovedOnExit ==
    (CciExited /\ (exc = "none" \/ ToolFailed)) => tempdirs = {}

----------------------------------------------------------------------------
(* C3: the removal of the mount-point directory is never carried out while  *)
(* the small image is still mounted on it, and the image is not mounted     *)
(* when setup-script staging and ISO mastering begin.                       *)

----------------------------------------------------------------------------
(* C4: deploy runs check_dependencies, create_disk_image, create_config_iso *)
(* (rendering and media assembly) and start_vm in exactly that order, each  *)
(* at most once per run and each only after the previous one returned; a    *)
(* fatal error in a step ends the run with no later step started.           *)

DeployOrder ==
    <<"check_dependencies", "create_disk_image", "create_config_iso", "start_vm">>

IsPrefix(s, t) == Len(s) <= Len(t) /\ \A i \in 1..Len(s) : s[i] = t[i]

Ops(events) == [i \in 1..Len(events) |-> events[i].op]

C4_FixedOrder ==
    /\ IsPrefix(Ops(Started), DeployOrder)
    /\ IsPrefix(Ops(Returned), Ops(Started))
    /\ Len(Started) <= Len(Returned) + 1
    /\ (pc = "exited" /\ exitStatus = {1} /\ Started # <<>>) =>
           Len(Returned) = Len(Started) - 1
    /\ (pc = "exited" /\ exitStatus = {0}) => Ops(Returned) = DeployOrder

\* a run in which create_config_iso failed after the two steps before it
\* returned, and start_vm was never started
C4_Witness ==
    /\ pc = "exited" /\ failure = "tool_failed"
    /\ Ops(Started) = SubSeq(DeployOrder, 1, 3)
    /\ Ops(Returned) = SubSeq(DeployOrder, 1, 2)

----------------------------------------------------------------------------
(* C5: for every non-empty set of required tools that is not resolvable,    *)
(* check_dependencies prints a single report naming exactly the missing     *)
(* tools, all of them, and the process exits with status 1 before disk      *)
(* provisioning starts; when none is missing it returns without exiting.    *)

MissingTools == {c \in {"qemu-system-x86_64", "qemu-img", "mkisofs"} : c \notin path}

C5_CollectAllReportOnce ==
    HasStarted("check_dependencies") =>
        IF MissingTools # {}
        THEN /\ pc = "exited" /\ exitStatus = {1}
             /\ Len(reports) = 1
             /\ Range(reports[1]) = MissingTools
             /\ Len(reports[1]) = Cardinality(MissingTools)
             /\ ~HasStarted("create_disk_image")
        ELSE /\ reports = <<>>
             /\ HasReturned("check_dependencies")
             /\ failure # "dependency_missing"

\* two tools are missing and both are named in the one report
C5_Witness ==
    /\ pc = "exited" /\ failure = "dependency_missing"
    /\ Len(reports) = 1
    /\ Range(reports[1]) = {"qemu-img", "mkisofs"}
----------------------------------------------------------------------------
(* C6: disk provisioning is idempotent.  As claimed: over any sequence of   *)
(* create_disk_image calls on the same disk path the disk-creation tool is  *)
(* invoked at most once, only while no file exists at the path, and a call  *)
(* made while the file exists returns the path without invoking the tool.   *)

InvokingCalls == {i \in 1..Len(diskCalls) : diskCalls[i].invoked}

C6_Original ==
    /\ Cardinality(InvokingCalls) <= 1
    /\ \A i \in 1..Len(diskCalls) :
          /\ diskCalls[i].invoked => diskCalls[i].existed = "absent"
          /\ diskCalls[i].existed # "absent" =>
                 ~diskCalls[i].invoked /\ diskCalls[i].returned = "disk_path"

(* C6 as amended: the tool is invoked in exactly the calls made while no    *)
(* file exists at the path, so it succeeds at most once and, once a file    *)
(* exists, is never invoked again; a call made while a file exists (be it   *)
(* a partial file a failed invocation left) returns the path without        *)
(* invoking the tool and leaves the file as it is.                          *)

C6_Idempotent ==
    /\ Cardinality({i \in InvokingCalls : diskCalls[i].rc = 0}) <= 1
    /\ \A i \in 1..Len(diskCalls) :
          /\ diskCalls[i].invoked <=> diskCalls[i].existed = "absent"
          /\ diskCalls[i].existed # "absent" =>
                 /\ diskCalls[i].returned = "disk_path"
                 /\ \A j \in i..Len(diskCalls) : diskCalls[j].existed = diskCalls[i].existed
    /\ Invoked("qemu-img") => (diskCalls # <<>> /\ diskCalls[Len(diskCalls)].invoked)

\* a second call finds the partial file a failed first invocation left and
\* returns it without invoking the tool
C6_Witness ==
    /\ Len(diskCalls) = 2
    /\ diskCalls[1].invoked /\ diskCalls[1].rc # 0
    /\ diskCalls[2].existed = "partial" /\ ~diskCalls[2].invoked
    /\ diskCalls[2].returned = "disk_path"

----------------------------------------------------------------------------
(* C7: the process exits with status 1 when the configuration file is       *)
(* missing, a required tool is missing, the installation media is missing   *)
(* or an awaited external tool returns non-zero; it exits with status 0     *)
(* exactly when deploy reached its end; a background launch is not waited   *)
(* for and its outcome does not change the exit status.                     *)

ConfigFileMissing == pc # "main" /\ configFile = "missing"
DependencyMissing == HasStarted("check_dependencies") /\ MissingTools # {}
InstallMediaMissing == HasStarted("start_vm") /\ "iso" \notin files
ReachedEnd == HasReturned("start_vm") /\ pc \in {"deploy_end", "exited"}

----------------------------------------------------------------------------
(* C8: a configuration error terminates the run before any side effect.     *)
(* As claimed: when the run fails on a missing configuration file, a        *)
(* malformed document or an absent required key, the run has created no     *)
(* work directory, disk image, media image or launch script.                *)

ConfigErrors == {"config_missing", "malformed", "missing_key"}

C8_Original ==
    (pc = "exited" /\ failure \in ConfigErrors) => written = {}

(* C8 as amended: a missing configuration file, a malformed document, or    *)
(* the absence of vm.name or vm.work_dir (the keys the constructor reads)   *)
(* terminates the run before any side effect: nothing was created, no       *)
(* deploy step was started and no tool was invoked.  Any other absent       *)
(* required key surfaces only in the step that reads it, after the work     *)
(* directory exists.                                                        *)

EarlyConfigError ==
    \/ failure \in {"config_missing", "malformed"}
    \/ failure = "missing_key" /\ keyError \in {"vm.name", "vm.work_dir"}

C8_EarlyConfigErrorsNoSideEffect ==
    /\ (pc = "exited" /\ EarlyConfigError) =>
           written = {} /\ steps = <<>> /\ calls = <<>> /\ tempdirs = {}
    /\ (pc = "exited" /\ failure = "missing_key" /\ ~EarlyConfigError) =>
           "work_dir" \in files /\ steps # <<>>

\* the first run ends on the absent vm.work_dir with nothing on disk
C8_Witness ==
    /\ pc = "exited" /\ run = 1
    /\ failure = "missing_key" /\ keyError = "vm.work_dir"
    /\ files \cap Artifacts = {}

----------------------------------------------------------------------------
(* C9: in start_vm a missing installation-media file is fatal (exit status  *)
(* 1, neither launch script written); a missing driver-media file is not:   *)
(* a warning is printed, start_vm goes on and both launch scripts are       *)
(* written.                                                                 *)

LaunchScripts == {"run_script", "boot_script"}

----------------------------------------------------------------------------
(* C10: the launch prompt.  As claimed: when the operator is asked whether  *)
(* to launch now, both launch scripts have been written and marked          *)
(* executable; the offer and a background launch come after both writes.    *)

C10_Original ==
    /\ response # "none" => promptSeen = LaunchScripts
    /\ bgProc # "none" => LaunchScripts \subseteq (written \cap execs)

(* C10 as amended: when the operator is asked, the install-boot script has  *)
(* been written and marked executable, and a background launch comes after  *)
(* that write; the direct-boot script is written and marked executable      *)
(* only after the answer was handled, before start_vm returns.              *)

C10_PromptAfterRunScript ==
    /\ response # "none" => promptSeen = {"run_script"}
    /\ bgProc # "none" => "run_script" \in (written \cap execs)
    /\ "boot_script" \in written => response \in {"y", "n"}
    /\ ("boot_script" \in written /\ response = "y") => bgProc # "none"
    /\ HasReturned("start_vm") => LaunchScripts \subseteq (written \cap execs)

\* the operator accepted: QEMU was started before boot_<name>.sh was written
C10_Witness ==
    /\ pc = "sv_phase" /\ response = "y" /\ bgProc = "running"
    /\ "run_script" \in written /\ "boot_script" \notin written

----------------------------------------------------------------------------
(* C11: when start_vm returns, whatever the operator answered, the          *)
(* install-boot script and the direct-boot script both exist in the work    *)
(* directory and are executable; the install-boot script has been started   *)
(* as a background process if and only if the operator accepted the prompt; *)
(* declining starts no process and creates no log file.                     *)

C11_ScriptsAlwaysLaunchOnlyOnYes ==
    HasReturned("start_vm") =>
        /\ LaunchScripts \subseteq (files \cap execs \cap written)
        /\ (bgProc # "none") <=> (response = "y")
        /\ Invoked("popen") <=> (response = "y")
        /\ response # "y" => "log" \notin written

\* start_vm returned after the operator declined: both scripts are there,
\* nothing was started and no log file was opened
C11_Witness ==
    /\ HasReturned("start_vm") /\ response = "n"
    /\ LaunchScripts \subseteq (files \cap execs)
    /\ bgProc = "none" /\ "log" \notin files

----------------------------------------------------------------------------
(* Observations on the loaded configuration and the composed launch scripts *)

\* the configured network mode is bridge (anything else is treated as nat)
BridgeMode(v) == v.network_mode = {"bridge"}

\* remote desktop is enabled in the configuration
RdpOn(v) == \E r \in v.rdp : r.enabled = {TRUE}

\* the host port configured for remote desktop (3389 when none is)
RdpHostPort(v) ==
    IF \E r \in v.rdp : r.host_port # {}
    THEN CHOOSE p \in UNION {r.host_port : r \in v.rdp} : TRUE
    ELSE 3389

\* the port-forward table in force: the configured one, else the default
\* single entry 8080 -> 80
Table(v) ==
    IF v.port_forwards = {} THEN <<[host |-> 8080, guest |-> 80]>>
    ELSE CHOOSE t \in v.port_forwards : TRUE

\* the two launch scripts start_vm composed
Composed == {launches[i].run : i \in 1..Len(launches)}
                \cup {launches[i].boot : i \in 1..Len(launches)}

\* rule is the forwarding rule of the pair host -> guest
Forwards(rule, host, guest) ==
    rule = [proto |-> "tcp", host |-> host, guest |-> guest]

----------------------------------------------------------------------------
(* C12: in nat mode the network clause of both launch scripts carries       *)
(* exactly one forwarding rule per entry of the port-forward table, in      *)
(* table order, followed by exactly one rule for the remote-desktop         *)
(* host/guest pair if and only if remote desktop is enabled; the launch     *)
(* invocation has no elevation prefix.                                      *)

C12_NatForwardingRules ==
    \A s \in Composed :
        ~BridgeMode(loadedValues) =>
            LET t == Table(loadedValues)
                rules == s.network.hostfwd
            IN /\ s.network.netdev = "user"
               /\ s.prefix = ""
               /\ Len(rules) = Len(t) + (IF RdpOn(loadedValues) THEN 1 ELSE 0)
               /\ \A i \in 1..Len(t) : Forwards(rules[i], t[i].host, t[i].guest)
               /\ RdpOn(loadedValues) =>
                      Forwards(rules[Len(rules)], RdpHostPort(loadedValues), 3389)

\* nat mode, a table of MaxForwards entries, remote desktop enabled on host
\* port 3390: both scripts carry the table's rules and then 3390 -> 3389
C12_Witness ==
    /\ launches # <<>>
    /\ loadedValues.network_mode = {"nat"}
    /\ Len(Table(loadedValues)) = MaxForwards
    /\ RdpOn(loadedValues) /\ RdpHostPort(loadedValues) = 3390
    /\ \A s \in Composed :
           /\ Len(s.network.hostfwd) = MaxForwards + 1
           /\ Forwards(s.network.hostfwd[MaxForwards + 1], 3390, 3389)

----------------------------------------------------------------------------
(* C13: in bridge mode the network clause of both launch scripts references *)
(* the configured bridge interface (br0 when none is configured), the       *)
(* launch invocation of both is prefixed with the elevation marker, and no  *)
(* forwarding rule is rendered, whatever the port-forward table and the     *)
(* remote-desktop setting are.                                              *)

C13_BridgeClause ==
    \A s \in Composed :
        BridgeMode(loadedValues) =>
            /\ s.network.netdev = "bridge"
            /\ s.network.br =
                   (IF loadedValues.bridge_interface = {} THEN {"br0"}
                    ELSE loadedValues.bridge_interface)
            /\ s.prefix = "sudo "
            /\ s.network.hostfwd = <<>>

\* bridge mode on br1 with a full port-forward table and remote desktop
\* enabled: both scripts name br1, start with sudo and carry no rule
C13_Witness ==
    /\ launches # <<>>
    /\ BridgeMode(loadedValues)
    /\ loadedValues.bridge_interface = {"br1"}
    /\ Len(Table(loadedValues)) = MaxForwards
    /\ RdpOn(loadedValues)
    /\ \A s \in Composed : /\ s.network.br = {"br1"}
                            /\ s.prefix = "sudo "
                            /\ s.network.hostfwd = <<>>

----------------------------------------------------------------------------
(* Observations on the rendered setup scripts *)

\* the ports of the firewall rules a script creates, in script order
FirewallPorts(script) ==
    LET rules == SelectSeq(script, LAMBDA st : st.cmdlet = "New-NetFirewallRule")
    IN [i \in 1..Len(rules) |-> CHOOSE p \in rules[i].LocalPort : TRUE]

\* how many firewall rules of a script open port
RulesFor(script, port) ==
    Cardinality({i \in 1..Len(FirewallPorts(script)) : FirewallPorts(script)[i] = port})

\* the statements of a script that enable remote desktop
RdpEnabling(script) ==
    SelectSeq(script, LAMBDA st :
        \/ st.cmdlet = "Set-ItemProperty" /\ st.arg = "fDenyTSConnections"
        \/ st.cmdlet = "Enable-NetFirewallRule" /\ st.arg = "Remote Desktop"
        \/ st.cmdlet = "New-NetFirewallRule" /\ st.arg = "Allow RDP")

----------------------------------------------------------------------------
(* C14 as stated: with remote desktop disabled or absent the setup script   *)
(* contains none of the remote-desktop-enabling statements; with it enabled *)
(* the script contains exactly one firewall rule for the configured         *)
(* remote-desktop port in addition to the two fixed rules (80 and 443).     *)

C14_Original ==
    \A i \in 1..Len(scripts) :
        /\ RulesFor(scripts[i], 80) = 1 /\ RulesFor(scripts[i], 443) = 1
        /\ ~RdpOn(loadedValues) => RdpEnabling(scripts[i]) = <<>>
        /\ RdpOn(loadedValues) =>
               RulesFor(scripts[i], RdpHostPort(loadedValues)) = 1

(* C14: with remote desktop disabled or absent the setup script contains    *)
(* none of the remote-desktop-enabling statements and exactly the two fixed *)
(* firewall rules (80, 443); with it enabled the script contains, after     *)
(* those two, exactly one more firewall rule, always for guest port 3389,   *)
(* whatever host port is configured for remote desktop.                     *)

C14_RdpRuleOnGuestPort ==
    \A i \in 1..Len(scripts) :
        IF RdpOn(loadedValues)
        THEN /\ FirewallPorts(scripts[i]) = <<80, 443, 3389>>
             /\ Len(RdpEnabling(scripts[i])) = 3
        ELSE /\ FirewallPorts(scripts[i]) = <<80, 443>>
             /\ RdpEnabling(scripts[i]) = <<>>

\* remote desktop enabled with host port 3390: the rendered script opens
\* 80, 443 and 3389, and has no rule for 3390
C14_Witness ==
    /\ scripts # <<>>
    /\ RdpOn(loadedValues) /\ RdpHostPort(loadedValues) = 3390
    /\ FirewallPorts(scripts[1]) = <<80, 443, 3389>>
    /\ RulesFor(scripts[1], 3390) = 0

----------------------------------------------------------------------------
(* C15: no operation of the program modifies the in-memory configuration    *)
(* after it was loaded: after the renderers and start_vm have run, the      *)
(* tree, the port-forward table included, holds exactly the values it held  *)
(* after loading, for every network mode and remote-desktop setting.        *)

C15_ConfigReadOnly == configValues = loadedValues

----------------------------------------------------------------------------
(* Observations on the configured users *)

\* the users of the list whose configured group is Administrators, in order
Administrators(users) ==
    SelectSeq(users, LAMBDA u : u.group = {"Administrators"})

\* the group-membership statements of a script, in script order
Memberships(script) ==
    SelectSeq(script, LAMBDA st : st.cmdlet = "Add-LocalGroupMember")

----------------------------------------------------------------------------
(* C16: the rendered setup script contains a group-membership statement     *)
(* naming a user if and only if that user's group equals Administrators (a  *)
(* user with no group is not an administrator): one statement per such      *)
(* user, in the order of the user list.                                     *)

----------------------------------------------------------------------------
(* C17: the rendered answer file contains exactly as many account-creation  *)
(* entries as there are configured users (none for an empty list), one per  *)
(* user, in the order of the user list.                                     *)

C17_OneAccountPerUser ==
    \A i \in 1..Len(xmls) :
        LET users == loadedValues.users
            accounts == xmls[i].LocalAccounts
        IN /\ Len(accounts) = Len(users)
           /\ \A k \in 1..Len(users) :
                  /\ accounts[k].Name = users[k].username
                  /\ accounts[k].Password = users[k].password

\* a list of MaxUsers distinct users: the answer file has an entry for each,
\* in the same order
C17_Witness ==
    /\ xmls # <<>>
    /\ Len(loadedValues.users) = MaxUsers
    /\ loadedValues.users[1].username # loadedValues.users[MaxUsers].username
    /\ Len(xmls[1].LocalAccounts) = MaxUsers
    /\ xmls[1].LocalAccounts[MaxUsers].Name = loadedValues.users[MaxUsers].username

----------------------------------------------------------------------------
(* C18: edition-key resolution never fails: a key that is not recognized    *)
(* selects the same installer image as an absent key (the image of the      *)
(* default, standard), and each recognized key selects its own image.       *)

C18_EditionResolution ==
    \A i \in 1..Len(xmls) :
        LET e == loadedValues.windows_edition
            img == xmls[i].image_name
        IN /\ e = {} => img = "Windows Server 2022 SERVERSTANDARD"
           /\ e \cap EditionKeys = {} => img = "Windows Server 2022 SERVERSTANDARD"
           /\ e = {"standard"} => img = "Windows Server 2022 SERVERSTANDARD"
           /\ e = {"core"} => img = "Windows Server 2022 SERVERSTANDARDCORE"
           /\ e = {"datacenter"} => img = "Windows Server 2022 SERVERDATACENTER"
           /\ e = {"datacenter-core"} =>
                  img = "Windows Server 2022 SERVERDATACENTERCORE"

\* the key "enterprise" is not recognized: the answer file is rendered and
\* selects the standard image
C18_Witness ==
    /\ xmls # <<>>
    /\ loadedValues.windows_edition = {"enterprise"}
    /\ xmls[1].image_name = "Windows Server 2022 SERVERSTANDARD"

----------------------------------------------------------------------------
(* C19: rendering is deterministic and pure: every call of a renderer on    *)
(* the loaded configuration returns the same answer file, respectively the  *)
(* same setup script, as every other call, and a rendering call changes     *)
(* neither the configuration nor any file.                                  *)

\* all answer files rendered so far are equal, and so are all setup scripts
SameRenderings ==
    /\ \A i, j \in 1..Len(xmls) : xmls[i] = xmls[j]
    /\ \A i, j \in 1..Len(scripts) : scripts[i] = scripts[j]

\* a step in which a renderer returned leaves configuration and files alone
RenderingStepIsPure ==
    (xmls' # xmls \/ scripts' # scripts) =>
        /\ configValues' = configValues
        /\ config' = config
        /\ files' = files /\ disk' = disk /\ execs' = execs
        /\ written' = written

----------------------------------------------------------------------------
(* C20: on a run against a work directory that holds the artifacts of an    *)
(* earlier completed run with the same VM name, the existing disk image is  *)
(* reused (the disk-creation tool is not invoked and the file is not        *)
(* rewritten), while the small image, the configuration ISO, the            *)
(* install-boot script and the direct-boot script are each created again,   *)
(* whether or not they exist.                                               *)

\* an earlier run on this work directory completed
EarlierCompleted == \E i \in 1..Len(earlier) : earlier[i].status = {0}

\* the artifacts every completed run creates, apart from the disk
Regenerated == {"floppy_img", "config_iso", "run_script", "boot_script"}

C20_DiskReusedOthersRegenerated ==
    EarlierCompleted =>
        /\ "disk" \notin written /\ ~Invoked("qemu-img")
        /\ HasReturned("create_disk_image") =>
               LET d == diskCalls[Len(diskCalls)]
               IN d.existed # "absent" /\ ~d.invoked /\ disk = d.existed
        /\ HasReturned("create_config_iso") =>
               {"floppy_img", "config_iso"} \subseteq written
        /\ HasReturned("start_vm") => Regenerated \subseteq written

\* the second run completed after the first one had completed and had left
\* all its artifacts: it wrote the four others again and not the disk
C20_Witness ==
    /\ run = 2 /\ pc = "exited" /\ exitStatus = {0}
    /\ earlier[1].status = {0}
    /\ Regenerated \cup {"disk"} \subseteq earlier[1].written
    /\ Regenerated \subseteq written
    /\ "disk" \notin written /\ ~Invoked("qemu-img")

----------------------------------------------------------------------------
(* C21: a required key without a default that is absent (the user list, the *)
(* web-content source folder) surfaces as a failure at render time, when    *)
(* the renderer that first needs it runs, and not earlier: loading, the     *)
(* dependency check and disk provisioning complete without reporting it.    *)

\* the keys the two renderers are the first to look up
RenderKeys == {"windows.users", "windows.web_project.source_folder"}

\* the three operations before rendering completed and reported nothing
PassedUpToRendering ==
    /\ config # {}
    /\ "work_dir" \in files
    /\ HasReturned("check_dependencies") /\ reports = <<>>
    /\ HasReturned("create_disk_image") /\ disk # "absent"
    /\ HasStarted("create_config_iso") /\ ~HasReturned("create_config_iso")

C21_MissingKeySurfacesAtRender ==
    /\ keyError \in RenderKeys =>
           /\ keyError \notin config
           /\ PassedUpToRendering
           /\ ~HasStarted("start_vm") /\ ~Invoked("mkisofs")
           /\ pc = "exited" => exitStatus = {1} /\ failure = "missing_key"
    /\ keyError = "windows.users" => xmls = <<>> /\ ~Invoked("dd")
    /\ keyError = "windows.web_project.source_folder" =>
           Len(xmls) = 1 /\ scripts = <<>>

\* the source folder key is absent: the run loaded the configuration, passed
\* the dependency check, created the disk, rendered the answer file and then
\* ended in the setup-script renderer
C21_Witness ==
    /\ pc = "exited" /\ failure = "missing_key"
    /\ keyError = "windows.web_project.source_folder"
    /\ PassedUpToRendering
    /\ "disk" \in written /\ Len(xmls) = 1 /\ scripts = <<>>

----------------------------------------------------------------------------
(* C22: an absent computer name falls back to its default wherever it is    *)
(* consumed: with windows.computer_name missing, the answer file is         *)
(* rendered with the default name, and media assembly with a source folder  *)
(* that does not exist also completes, synthesizing the fallback page       *)
(* instead of failing on the missing key.                                   *)

\* the loaded configuration lacks the computer name and nothing else
OnlyComputerNameAbsent ==
    config # {} /\ RequiredKeys \ config = {"windows.computer_name"}

C22_ComputerNameDefaultsEverywhere ==
    OnlyComputerNameAbsent =>
        /\ \A i \in 1..Len(xmls) : xmls[i].ComputerName = "WIN-SERVER"
        /\ keyError = "none"
        /\ (CciExited /\ ~ToolFailed) => HasReturned("create_config_iso")

----------------------------------------------------------------------------
(* C23: the dependency check probes exactly three tools (the virtualization *)
(* launcher, the disk-image tool, the ISO-mastering tool); the other tools  *)
(* the run invokes (dd, mkfs.vfat, sudo, mount, cp, umount) are not probed: *)
(* their absence is never reported by check_dependencies and can only       *)
(* surface during media assembly, after the dependency check has passed     *)
(* and the disk image has been provisioned.                                 *)

\* the three tools the claim names as probed
Probed == {"qemu-system-x86_64", "qemu-img", "mkisofs"}

\* a program media assembly needs is not on the path
UnprobedAbsent == {"dd", "mkfs.vfat", "sudo", "mount", "cp", "umount"} \ path # {}

\* a program was not found when the run tried to execute it
NotFoundRaised == exc = "FileNotFoundError" \/ failure = "tool_not_found"

C23_OnlyThreeToolsProbed ==
    /\ \A i \in 1..Len(reports) :
           reports[i] # <<>> /\ Range(reports[i]) = Probed \ path
    /\ (HasStarted("check_dependencies") /\ Probed \subseteq path) =>
           HasReturned("check_dependencies") /\ reports = <<>>
    /\ failure = "dependency_missing" => Probed \ path # {}
    /\ NotFoundRaised =>
           /\ UnprobedAbsent
           /\ HasReturned("check_dependencies") /\ reports = <<>>
           /\ HasReturned("create_disk_image") /\ disk # "absent"
           /\ HasStarted("create_config_iso")
           /\ ~HasReturned("create_config_iso")

\* dd is not on the path: the dependency check passed without a report, the
\* disk was created, and the run ended in media assembly
C23_Witness ==
    /\ pc = "exited" /\ failure = "tool_not_found"
    /\ "dd" \notin path /\ Probed \subseteq path
    /\ HasReturned("check_dependencies") /\ reports = <<>>
    /\ "disk" \in written
    /\ HasStarted("create_config_iso") /\ ~HasReturned("create_config_iso")

====
